---- MODULE Spec2Model ----
EXTENDS Integers, Sequences, FiniteSets, TLC

(***************************************************************************)
(* Model of perflogtool: the multi-string decoder, the timestamp          *)
(* converter, the catalog walker (get_perflog_summary), the main binary's *)
(* run over a bound data source, and the counter value reader.            *)
(***************************************************************************)

VARIABLES
  \* Multi-String Decoder (get_strings_from_pwstr)
  dStrs, dLen, dOut, dpc,
  \* Timestamp Converter (get_time_from_filetime)
  ta, tb, ca, cb, profile, tpc,
  \* Catalog Walker (get_perflog_summary and the enumerations it calls)
  wpc, cat, calls, need, mlist, mi, olist, oi, objs, summary,
  \* main.rs: the binary's run over a bound data source
  mpc, nfiles, dsBound, dsReleases, mmCount, mmi, moCount, moi,
  \* Counter Value Reader (read_counter_values)
  rpc, rbuild, stdoutOk, paths, ri, addCalls, addFailed, series, order, fi, logTimes, cursor,
  advances, curTime, attempts, envOk, lastFmt, lastAdv, panicAt,
  \* PerfLogSummary::get_all_counters
  gsum, gout, gpc

decVars == <<dStrs, dLen, dOut, dpc>>
timeVars == <<ta, tb, ca, cb, profile, tpc>>
walkVars == <<wpc, cat, calls, need, mlist, mi, olist, oi, objs, summary>>
mainVars == <<mpc, nfiles, dsBound, dsReleases, mmCount, mmi, moCount, moi>>
readVars == <<rpc, rbuild, stdoutOk, paths, ri, addCalls, addFailed, series, order, fi, logTimes,
              cursor, advances, curTime, attempts, envOk, lastFmt, lastAdv, panicAt>>
pathVars == <<gsum, gout, gpc>>
vars == <<decVars, timeVars, walkVars, mainVars, readVars, pathVars>>

(***************************************************************************)
(* UTF-16 and the null-separated multi-string buffers                     *)
(***************************************************************************)

NUL == 0

\* Encoding of one code point as UTF-16 code units (String -> HSTRING / PDH
\* side of the buffer).
EncodeChar(cp) ==
  IF cp < 65536 THEN <<cp>>
  ELSE <<55296 + (cp - 65536) \div 1024, 56320 + ((cp - 65536) % 1024)>>

RECURSIVE EncodeString(_)
EncodeString(s) ==
  IF s = <<>> THEN <<>> ELSE EncodeChar(Head(s)) \o EncodeString(Tail(s))

\* The buffer a PDH enumeration call fills: every string followed by a
\* null, plus one extra terminating null.
RECURSIVE EncodeMulti0(_)
EncodeMulti0(strs) ==
  IF strs = <<>> THEN <<>>
  ELSE EncodeString(Head(strs)) \o <<NUL>> \o EncodeMulti0(Tail(strs))

EncodeMulti(strs) == EncodeMulti0(strs) \o <<NUL>>

IsHigh(u) == 55296 <= u /\ u <= 56319
IsLow(u) == 56320 <= u /\ u <= 57343

\* String::from_utf16: code points, or an error on an unpaired surrogate.
RECURSIVE FromUtf16Acc(_, _)
FromUtf16Acc(u, acc) ==
  IF u = <<>> THEN [ok |-> TRUE, cps |-> acc]
  ELSE IF IsHigh(Head(u))
    THEN IF Len(u) >= 2 /\ IsLow(u[2])
           THEN FromUtf16Acc(SubSeq(u, 3, Len(u)),
                  Append(acc, 65536 + (u[1] - 55296) * 1024 + (u[2] - 56320)))
           ELSE [ok |-> FALSE, cps |-> acc]
  ELSE IF IsLow(Head(u)) THEN [ok |-> FALSE, cps |-> acc]
  ELSE FromUtf16Acc(Tail(u), Append(acc, Head(u)))

FromUtf16(u) == FromUtf16Acc(u, <<>>)

\* str::split('\0'): always yields at least one piece.
RECURSIVE SplitAcc(_, _, _)
SplitAcc(cps, cur, out) ==
  IF cps = <<>> THEN Append(out, cur)
  ELSE IF Head(cps) = NUL THEN SplitAcc(Tail(cps), <<>>, Append(out, cur))
  ELSE SplitAcc(Tail(cps), Append(cur, Head(cps)), out)

Split(cps) == SplitAcc(cps, <<>>, <<>>)

\* Vec::pop: no effect on an empty vector.
Pop(s) == IF s = <<>> THEN s ELSE SubSeq(s, 1, Len(s) - 1)

\* A decoder that strips only one trailing empty piece.
get_strings_from_pwstr_PopOnce(buf, size) ==
  LET dec == FromUtf16(SubSeq(buf, 1, size))
  IN IF ~dec.ok THEN [ok |-> FALSE, strs |-> <<>>]
     ELSE [ok |-> TRUE, strs |-> Pop(Split(dec.cps))]

\* get_strings_from_pwstr(object_list, buffer_size): slice the buffer at
\* buffer_size units, decode (unwrap panics on error), split at nulls and
\* pop twice.
get_strings_from_pwstr(buf, size) ==
  LET dec == FromUtf16(SubSeq(buf, 1, size))
  IN IF ~dec.ok THEN [ok |-> FALSE, strs |-> <<>>]
     ELSE [ok |-> TRUE, strs |-> Pop(Pop(Split(dec.cps)))]


(***************************************************************************)
(* 64-bit unsigned arithmetic as four 16-bit limbs, least significant     *)
(* first, and the timestamp converter.                                     *)
(***************************************************************************)

LimbBase == 65536

\* A small non-negative number (< 2^31) as a 64-bit value.
ToU64(n) == <<n % LimbBase, (n \div LimbBase) % LimbBase, 0, 0>>

\* Wrapping addition of a small number (< 2^16); reports the carry out.
AddSmall(x, k) ==
  LET r1 == x[1] + k
      r2 == x[2] + r1 \div LimbBase
      r3 == x[3] + r2 \div LimbBase
      r4 == x[4] + r3 \div LimbBase
  IN <<r1 % LimbBase, r2 % LimbBase, r3 % LimbBase, r4 % LimbBase>>

\* u64 * k for a small k: the wrapped product and whether it overflowed.
MulSmall(x, k) ==
  LET r1 == x[1] * k
      r2 == x[2] * k + r1 \div LimbBase
      r3 == x[3] * k + r2 \div LimbBase
      r4 == x[4] * k + r3 \div LimbBase
  IN [limbs |-> <<r1 % LimbBase, r2 % LimbBase, r3 % LimbBase, r4 % LimbBase>>,
      overflow |-> r4 \div LimbBase # 0]

U64Lt(a, b) ==
  \/ a[4] < b[4]
  \/ a[4] = b[4] /\ a[3] < b[3]
  \/ a[4] = b[4] /\ a[3] = b[3] /\ a[2] < b[2]
  \/ a[4] = b[4] /\ a[3] = b[3] /\ a[2] = b[2] /\ a[1] < b[1]

\* An i64 is held as its two's-complement bit pattern; `filetime as u64`
\* reinterprets those bits.
I64NonNeg(x) == x[4] < 32768

\* A PrimitiveDateTime is held as the nanoseconds elapsed since
\* 1601-01-01T00:00:00 (the filetime base date). Every u64 nanosecond
\* Duration lands before year 2186, inside PrimitiveDateTime's range, so the
\* addition itself never panics.
Epoch1601 == ToU64(0)

\* A converter that scales ticks by 10 instead of 100.
get_time_from_filetime_Tens(filetime, build) ==
  LET m == MulSmall(filetime, 10)
  IN IF m.overflow /\ build = "debug" THEN [panic |-> TRUE, at |-> Epoch1601]
     ELSE [panic |-> FALSE, at |-> m.limbs]

\* get_time_from_filetime: base date + Duration::from_nanos(filetime as u64
\* * 100). The u64 multiplication panics on overflow in a debug build and
\* wraps in a release build.
get_time_from_filetime(filetime, build) ==
  LET m == MulSmall(filetime, 100)
  IN IF m.overflow /\ build = "debug" THEN [panic |-> TRUE, at |-> Epoch1601]
     ELSE [panic |-> FALSE, at |-> m.limbs]

(***************************************************************************)
(* Decoder specification: a list of strings is encoded and decoded at a   *)
(* length up to the full encoded length.                                  *)
(***************************************************************************)

MaxStrings == 2
MaxStrLen == 2
\* 'A', 'B' and U+1F600 (a surrogate pair in UTF-16)
Chars == {65, 66, 128512}

StrsOfLen(n) == [1..n -> Chars]
Strs == UNION {StrsOfLen(n) : n \in 0..MaxStrLen}
StrLists == UNION {[1..n -> Strs] : n \in 0..MaxStrings}

DecInit ==
  /\ dStrs \in StrLists
  /\ dLen \in 0..Len(EncodeMulti(dStrs))
  /\ dOut = [ok |-> TRUE, strs |-> <<>>]
  /\ dpc = "init"

Decode ==
  /\ dpc = "init"
  /\ dOut' = get_strings_from_pwstr(EncodeMulti(dStrs), dLen)
  /\ dpc' = "done"
  /\ UNCHANGED <<dStrs, dLen>>


\* C3: encoding N strings (no embedded nulls) each followed by a null, plus
\* one extra terminating null, and decoding the buffer at its exact length
\* with get_strings_from_pwstr returns exactly the original N strings in
\* order, without error.
DecoderRoundTrip ==
  (dpc = "done" /\ dLen = Len(EncodeMulti(dStrs)))
    => (dOut.ok /\ dOut.strs = dStrs)

DecoderRoundTripWitness ==
  /\ dpc = "done" /\ dLen = Len(EncodeMulti(dStrs))
  /\ Len(dStrs) = MaxStrings
  /\ \E i \in 1..Len(dStrs) : \E j \in DOMAIN dStrs[i] : dStrs[i][j] = 128512

IsPrefix(s, t) == Len(s) <= Len(t) /\ s = SubSeq(t, 1, Len(s))

\* C4 (as stated): decoding a valid multi-string buffer at a length shorter
\* than its full encoded length fails with a decode error.
DecoderTruncatedFails ==
  (dpc = "done" /\ dLen < Len(EncodeMulti(dStrs))) => ~dOut.ok

\* The truncated slice ends inside a surrogate pair.
CutsPair == dLen >= 1 /\ IsHigh(EncodeMulti(dStrs)[dLen])

\* C4 (amended): decoding at a truncated length fails only when the cut
\* splits a surrogate pair; otherwise it returns, without error, a prefix of
\* the original strings, strictly shorter when there is at least one string.
DecoderTruncatedPrefix ==
  (dpc = "done" /\ dLen < Len(EncodeMulti(dStrs)))
    => /\ (dOut.ok <=> ~CutsPair)
       /\ dOut.ok => /\ IsPrefix(dOut.strs, dStrs)
                     /\ (Len(dStrs) >= 1 => Len(dOut.strs) < Len(dStrs))

DecoderTruncatedWitness ==
  /\ dpc = "done" /\ dLen < Len(EncodeMulti(dStrs))
  /\ dOut.ok /\ Len(dStrs) = MaxStrings


(***************************************************************************)
(* Timestamp converter specification: two tick counts are converted under *)
(* either build profile.                                                  *)
(***************************************************************************)

\* Largest tick count whose scaling by 100 fits in a u64: (2^64-1) \div 100.
MaxScalableTicks == <<36700, 62914, 23592, 655>>
MaxI64 == <<65535, 65535, 65535, 32767>>
MinusOne == <<65535, 65535, 65535, 65535>>
TicksPerSecond == 10000000
NanosPerSecond == 1000000000

\* Ticks probed beyond MaxScalableTicks.
TimeDelta == 2

TickInputs ==
  {ToU64(0), ToU64(1), ToU64(TicksPerSecond), <<36699, 62914, 23592, 655>>,
   MaxI64, MinusOne}
  \cup {AddSmall(MaxScalableTicks, k) : k \in 0..TimeDelta}

Builds == {"debug", "release"}

TimeInit ==
  /\ ta \in TickInputs
  /\ tb \in TickInputs
  /\ profile \in Builds
  /\ ca = [panic |-> FALSE, at |-> Epoch1601]
  /\ cb = [panic |-> FALSE, at |-> Epoch1601]
  /\ tpc = "init"

Convert ==
  /\ tpc = "init"
  /\ ca' = get_time_from_filetime(ta, profile)
  /\ cb' = get_time_from_filetime(tb, profile)
  /\ tpc' = "done"
  /\ UNCHANGED <<ta, tb, profile>>

ConvertFixedPoints ==
  /\ ta = ToU64(0) => ca = [panic |-> FALSE, at |-> Epoch1601]
  /\ ta = ToU64(TicksPerSecond) => ca = [panic |-> FALSE, at |-> ToU64(NanosPerSecond)]

\* C10 (as stated): convert(0) is 1601-01-01T00:00:00, convert(10_000_000)
\* is one second later, and for all non-negative a > b, convert(a) >
\* convert(b).
TimeConverterMonotonic ==
  tpc = "done" =>
    /\ ConvertFixedPoints
    /\ (I64NonNeg(ta) /\ I64NonNeg(tb) /\ U64Lt(tb, ta))
         => (~ca.panic /\ ~cb.panic /\ U64Lt(cb.at, ca.at))

\* C10 (amended): the fixed points hold, and convert is strictly monotonic
\* for 0 <= b < a <= (2^64-1) \div 100, the largest tick count whose
\* nanosecond value fits in a u64.
TimeConverterMonotonicInRange ==
  tpc = "done" =>
    /\ ConvertFixedPoints
    /\ (~U64Lt(MaxScalableTicks, ta) /\ U64Lt(tb, ta))
         => (~ca.panic /\ ~cb.panic /\ U64Lt(cb.at, ca.at))

TimeConverterWitness ==
  /\ tpc = "done" /\ ta = MaxScalableTicks /\ tb = ToU64(TicksPerSecond)
  /\ U64Lt(cb.at, ca.at)



(***************************************************************************)
(* Catalog walker: get_perflog_summary over a bound data source.          *)
(* The data source's catalog (cat) is a sequence of machines, each a      *)
(* sequence of objects; an object is TRUE when its item enumeration       *)
(* reports PDH_CSTATUS_NO_OBJECT. Every PDH call may also fail with a     *)
(* status outside its contract ("ERR").                                    *)
(***************************************************************************)

MaxMachines == 2
MaxObjects == 2

Faults == {"ERR"}

MachineName(i) == <<77, 48 + i>>
ObjectName(j) == <<79, 48 + j>>
CountersOf(i, j) == <<<<67, 48 + i>>, <<67, 48 + j>>>>
InstancesOf(i, j) == IF j % 2 = 1 THEN <<>> ELSE <<<<73, 48 + i>>>>
MachineIndex(name) == name[2] - 48
ObjectIndex(name) == name[2] - 48

\* The multi-string lists the data source reports.
ReportedMachines == [i \in DOMAIN cat |-> MachineName(i)]
ReportedObjects(m) == [j \in DOMAIN cat[MachineIndex(m)] |-> ObjectName(j)]

Catalogs ==
  UNION {[1..n -> UNION {[1..k -> BOOLEAN] : k \in 0..MaxObjects}]
           : n \in 0..MaxMachines}

CurMachine == mlist[mi]
CurObject == olist[oi]

\* Next step of the object loop (line 86) after object oi is handled.
AfterObject(k) == IF k <= Len(olist) THEN "items1" ELSE "pushMachine"

LogCall(fn, phase, m, o, size, status) ==
  [fn |-> fn, phase |-> phase, m |-> m, o |-> o, size |-> size, status |-> status]

WalkInit ==
  /\ wpc = "machines1"
  /\ cat \in Catalogs
  /\ calls = <<>>
  /\ need = <<0, 0>>
  /\ mlist = <<>> /\ mi = 1
  /\ olist = <<>> /\ oi = 1
  /\ objs = <<>>
  /\ summary = <<>>

\* enum_machines, first call: null buffer, must report PDH_MORE_DATA.
EnumMachinesSize ==
  /\ wpc = "machines1"
  /\ \E st \in {"MORE_DATA"} \cup Faults :
       LET sz == Len(EncodeMulti(ReportedMachines)) IN
       /\ calls' = Append(calls, LogCall("machines", 1, <<>>, <<>>, <<sz, 0>>, st))
       /\ IF st # "MORE_DATA"
            THEN wpc' = "panicked" /\ need' = need
            ELSE wpc' = "machines2" /\ need' = <<sz, 0>>
  /\ UNCHANGED <<cat, mlist, mi, olist, oi, objs, summary>>

\* enum_machines, second call into a buffer of the reported size, then
\* decode; get_perflog_summary starts its machine loop.
EnumMachinesFill ==
  /\ wpc = "machines2"
  /\ \E st \in {"SUCCESS"} \cup Faults :
       LET buf == EncodeMulti(ReportedMachines)
           dec == get_strings_from_pwstr(buf, need[1]) IN
       IF st # "SUCCESS"
         THEN /\ calls' = Append(calls, LogCall("machines", 2, <<>>, <<>>, need, st))
              /\ wpc' = "panicked"
              /\ UNCHANGED <<mlist, mi>>
         ELSE /\ calls' = calls \o <<LogCall("machines", 2, <<>>, <<>>, need, st),
                                    LogCall("machines", 3, <<>>, <<>>, need, st)>>
              /\ mlist' = dec.strs
              /\ mi' = 1
              /\ wpc' = IF Len(dec.strs) >= 1 THEN "objects1" ELSE "timerange"
  /\ UNCHANGED <<cat, need, olist, oi, objs, summary>>

\* enum_objects(machine), first call.
EnumObjectsSize ==
  /\ wpc = "objects1"
  /\ \E st \in {"MORE_DATA"} \cup Faults :
       LET sz == Len(EncodeMulti(ReportedObjects(CurMachine))) IN
       /\ calls' = Append(calls, LogCall("objects", 1, CurMachine, <<>>, <<sz, 0>>, st))
       /\ IF st # "MORE_DATA"
            THEN wpc' = "panicked" /\ need' = need
            ELSE wpc' = "objects2" /\ need' = <<sz, 0>>
  /\ UNCHANGED <<cat, mlist, mi, olist, oi, objs, summary>>

\* enum_objects(machine), second call and decode; the object loop starts.
EnumObjectsFill ==
  /\ wpc = "objects2"
  /\ \E st \in {"SUCCESS"} \cup Faults :
       LET buf == EncodeMulti(ReportedObjects(CurMachine))
           dec == get_strings_from_pwstr(buf, need[1]) IN
       IF st # "SUCCESS"
         THEN /\ calls' = Append(calls, LogCall("objects", 2, CurMachine, <<>>, need, st))
              /\ wpc' = "panicked"
              /\ UNCHANGED <<olist, oi, objs>>
         ELSE /\ calls' = calls \o <<LogCall("objects", 2, CurMachine, <<>>, need, st),
                                    LogCall("objects", 3, CurMachine, <<>>, need, st)>>
              /\ olist' = dec.strs
              /\ oi' = 1
              /\ objs' = <<>>
              /\ wpc' = IF Len(dec.strs) >= 1 THEN "items1" ELSE "pushMachine"
  /\ UNCHANGED <<cat, need, mlist, mi, summary>>

\* The status the first item-enumeration call reports for this object.
ItemSizeStatus(m, o) ==
  IF cat[MachineIndex(m)][ObjectIndex(o)] THEN "NO_OBJECT" ELSE "MORE_DATA"

ItemBuffers(m, o) ==
  <<EncodeMulti(CountersOf(MachineIndex(m), ObjectIndex(o))),
    EncodeMulti(InstancesOf(MachineIndex(m), ObjectIndex(o)))>>

\* An item enumeration that keeps a skipped object as an empty placeholder.
EnumItemsSize_Placeholder ==
  /\ wpc = "items1"
  /\ \E st \in {ItemSizeStatus(CurMachine, CurObject)} \cup Faults :
       LET bufs == ItemBuffers(CurMachine, CurObject)
           sz == <<Len(bufs[1]), Len(bufs[2])>> IN
       /\ calls' = Append(calls, LogCall("items", 1, CurMachine, CurObject, sz, st))
       /\ CASE st = "NO_OBJECT" ->
                 /\ oi' = oi + 1 /\ wpc' = AfterObject(oi + 1) /\ need' = need
                 /\ objs' = Append(objs, [name |-> CurObject, counters |-> <<>>,
                                          instances |-> <<>>])
            [] st = "MORE_DATA" ->
                 /\ oi' = oi /\ wpc' = "items2" /\ need' = need /\ objs' = objs
                 /\ need' = sz
            [] OTHER ->
                 /\ oi' = oi /\ wpc' = "panicked" /\ need' = need /\ objs' = objs
  /\ UNCHANGED <<cat, mlist, mi, olist, summary>>

\* An item enumeration that skips the object on any first-phase failure.
EnumItemsSize_SkipAll ==
  /\ wpc = "items1"
  /\ \E st \in {ItemSizeStatus(CurMachine, CurObject)} \cup Faults :
       LET bufs == ItemBuffers(CurMachine, CurObject)
           sz == <<Len(bufs[1]), Len(bufs[2])>> IN
       /\ calls' = Append(calls, LogCall("items", 1, CurMachine, CurObject, sz, st))
       /\ IF st # "MORE_DATA"
            THEN oi' = oi + 1 /\ wpc' = AfterObject(oi + 1) /\ need' = need
            ELSE oi' = oi /\ wpc' = "items2" /\ need' = sz
  /\ UNCHANGED <<cat, mlist, mi, olist, objs, summary>>

\* enum_object_items(machine, object), first call: PDH_CSTATUS_NO_OBJECT
\* skips the object (None), PDH_MORE_DATA proceeds, anything else panics.
EnumItemsSize ==
  /\ wpc = "items1"
  /\ \E st \in {ItemSizeStatus(CurMachine, CurObject)} \cup Faults :
       LET bufs == ItemBuffers(CurMachine, CurObject)
           sz == <<Len(bufs[1]), Len(bufs[2])>> IN
       /\ calls' = Append(calls, LogCall("items", 1, CurMachine, CurObject, sz, st))
       /\ CASE st = "NO_OBJECT" ->
                 /\ oi' = oi + 1 /\ wpc' = AfterObject(oi + 1) /\ need' = need
            [] st = "MORE_DATA" ->
                 /\ oi' = oi /\ wpc' = "items2" /\ need' = sz
            [] OTHER ->
                 /\ oi' = oi /\ wpc' = "panicked" /\ need' = need
  /\ UNCHANGED <<cat, mlist, mi, olist, objs, summary>>

\* enum_object_items, second call and decode of both lists; the object's
\* ObjectSummary is appended.
EnumItemsFill ==
  /\ wpc = "items2"
  /\ \E st \in {"SUCCESS"} \cup Faults :
       LET bufs == ItemBuffers(CurMachine, CurObject)
           cdec == get_strings_from_pwstr(bufs[1], need[1])
           idec == get_strings_from_pwstr(bufs[2], need[2]) IN
       IF st # "SUCCESS"
         THEN /\ calls' = Append(calls, LogCall("items", 2, CurMachine, CurObject, need, st))
              /\ wpc' = "panicked"
              /\ UNCHANGED <<oi, objs>>
         ELSE /\ calls' = calls \o <<LogCall("items", 2, CurMachine, CurObject, need, st),
                                    LogCall("items", 3, CurMachine, CurObject, need, st)>>
              /\ objs' = Append(objs, [name |-> CurObject, counters |-> cdec.strs,
                                       instances |-> idec.strs])
              /\ oi' = oi + 1
              /\ wpc' = AfterObject(oi + 1)
  /\ UNCHANGED <<cat, need, mlist, mi, olist, summary>>

\* End of the machine loop body: push the MachineSummary.
PushMachine ==
  /\ wpc = "pushMachine"
  /\ summary' = Append(summary, [name |-> CurMachine, objects |-> objs])
  /\ mi' = mi + 1
  /\ wpc' = IF mi + 1 <= Len(mlist) THEN "objects1" ELSE "timerange"
  /\ UNCHANGED <<cat, calls, need, mlist, olist, oi, objs>>

\* get_time_range: a single call; a non-zero status panics.
GetTimeRange ==
  /\ wpc = "timerange"
  /\ \E st \in {"SUCCESS"} \cup Faults :
       wpc' = IF st = "SUCCESS" THEN "done" ELSE "panicked"
  /\ UNCHANGED <<cat, calls, need, mlist, mi, olist, oi, objs, summary>>


(***************************************************************************)
(* main.rs: glob the files, bind them, walk and print the catalog, print  *)
(* the time range, close the log. Each action is one call of main; a call *)
(* that reports a status outside its contract panics, which unwinds out   *)
(* of main (the handle is a bare isize with no Drop).                     *)
(***************************************************************************)

MaxFiles == 2

MainInit ==
  /\ mpc = "start"
  /\ nfiles \in 0..MaxFiles
  /\ dsBound = FALSE
  /\ dsReleases = 0
  /\ mmCount = 0 /\ mmi = 1
  /\ moCount = 0 /\ moi = 1

\* Lines 25-40: glob and sort the files, then return when there are none.
\* A glob entry that is an Err (x.unwrap(), line 27) or a globbed file whose
\* metadata cannot be read (unwrap in the sort_by comparator, lines 31-32)
\* panics before anything is bound.
MainCheckFiles ==
  /\ mpc = "start"
  /\ \/ mpc' = IF nfiles = 0 THEN "returned" ELSE "bind"
     \/ mpc' = "panicked"
  /\ UNCHANGED <<nfiles, dsBound, dsReleases, mmCount, mmi, moCount, moi>>

\* Line 46: bind_input_logfiles.
MainBind ==
  /\ mpc = "bind"
  /\ \E st \in {"SUCCESS"} \cup Faults :
       IF st = "SUCCESS" THEN mpc' = "machines" /\ dsBound' = TRUE
       ELSE mpc' = "panicked" /\ dsBound' = FALSE
  /\ UNCHANGED <<nfiles, dsReleases, mmCount, mmi, moCount, moi>>

MainNextMachine(k) == IF k <= mmCount THEN "objects" ELSE "timerange"

\* Line 48: enum_machines (both calls; a bad status in either panics).
MainEnumMachines ==
  /\ mpc = "machines"
  /\ \/ /\ \E n \in 0..MaxMachines :
             mmCount' = n /\ mmi' = 1 /\ mpc' = IF n >= 1 THEN "objects" ELSE "timerange"
     \/ /\ mpc' = "panicked" /\ UNCHANGED <<mmCount, mmi>>
  /\ UNCHANGED <<nfiles, dsBound, dsReleases, moCount, moi>>

\* Line 53: enum_objects for machine mmi.
MainEnumObjects ==
  /\ mpc = "objects"
  /\ \/ /\ \E n \in 0..MaxObjects :
             /\ moCount' = n /\ moi' = 1
             /\ IF n >= 1 THEN mpc' = "items" /\ mmi' = mmi
                ELSE mpc' = MainNextMachine(mmi + 1) /\ mmi' = mmi + 1
     \/ /\ mpc' = "panicked" /\ UNCHANGED <<moCount, moi, mmi>>
  /\ UNCHANGED <<nfiles, dsBound, dsReleases, mmCount>>

\* Line 58: enum_object_items for object moi: printed, skipped (None) or a
\* panic.
MainEnumItems ==
  /\ mpc = "items"
  /\ \/ /\ moi' = moi + 1
        /\ IF moi + 1 <= moCount THEN mpc' = "items" /\ mmi' = mmi
           ELSE mpc' = MainNextMachine(mmi + 1) /\ mmi' = mmi + 1
     \/ /\ mpc' = "panicked" /\ UNCHANGED <<moi, mmi>>
  /\ UNCHANGED <<nfiles, dsBound, dsReleases, mmCount, moCount>>

\* Line 75: get_time_range.
MainTimeRange ==
  /\ mpc = "timerange"
  /\ \E st \in {"SUCCESS"} \cup Faults :
       mpc' = IF st = "SUCCESS" THEN "close" ELSE "panicked"
  /\ UNCHANGED <<nfiles, dsBound, dsReleases, mmCount, mmi, moCount, moi>>

\* Line 79: PdhCloseLog(hdatasource, 0).
MainCloseLog ==
  /\ mpc = "close"
  /\ dsReleases' = dsReleases + 1
  /\ mpc' = "done"
  /\ UNCHANGED <<nfiles, dsBound, mmCount, mmi, moCount, moi>>


(***************************************************************************)
(* Counter value reader: read_counter_values(hdatasource, counters).      *)
(* counter_data (series) and counter_handles share their keys, the       *)
(* requested paths. The bound log holds samples at strictly increasing    *)
(* filetimes (logTimes); each PdhCollectQueryDataWithTime consumes one.   *)
(* rbuild is the build profile (overflow panics in debug, wraps in        *)
(* release). stdoutOk is FALSE when stdout cannot be written (e.g. the    *)
(* reader of a pipe has exited): println! then panics.                     *)
(* order is the HashMap's iteration order over counter_handles, fixed    *)
(* once registration ends but otherwise arbitrary.                        *)
(***************************************************************************)

MaxPaths == 2
MaxLog == 2
MaxTick == 2

\* pvalue.Anonymous.largeValue
LargeValues == {7}
\* pvalue.CStatus
CStatuses == {0, 1}

\* Filetimes a log may hold: small tick counts and the two either side of
\* the largest count whose nanosecond value fits in a u64.
LogTicks ==
  {ToU64(t) : t \in 0..MaxTick} \cup {MaxScalableTicks, AddSmall(MaxScalableTicks, 1)}

IncreasingSeqs(S, n) ==
  {f \in [1..n -> S] : \A i \in 1..n : \A j \in 1..n : i < j => U64Lt(f[i], f[j])}

RequestSeqs == UNION {[1..k -> 1..MaxPaths] : k \in 0..MaxPaths}
LogSeqs == UNION {IncreasingSeqs(LogTicks, n) : n \in 0..MaxLog}

Perms(S) == {f \in [1..Cardinality(S) -> S] : \A i, j \in DOMAIN f : i # j => f[i] # f[j]}

\* Map insert: a new key, or an overwrite of an existing one.
Insert(f, k, v) == [x \in DOMAIN f \cup {k} |-> IF x = k THEN v ELSE f[x]]

Range(f) == {f[i] : i \in DOMAIN f}

NoFmt == [k |-> 0, status |-> "NONE", cstatus |-> 0]

ReadInit ==
  /\ rpc = "open"
  /\ paths \in RequestSeqs
  /\ logTimes \in LogSeqs
  /\ rbuild \in Builds
  /\ stdoutOk \in BOOLEAN
  /\ ri = 1 /\ addCalls = 0 /\ addFailed = FALSE
  /\ series = <<>> /\ attempts = <<>> /\ envOk = <<>>
  /\ order = <<>> /\ fi = 1
  /\ cursor = 0 /\ advances = 0 /\ curTime = Epoch1601
  /\ lastFmt = NoFmt /\ lastAdv = "NONE" /\ panicAt = "NONE"

\* Lines 330-335: PdhOpenQueryH.
OpenQuery ==
  /\ rpc = "open"
  /\ \E st \in {"SUCCESS"} \cup Faults :
       IF st = "SUCCESS" THEN rpc' = "register" /\ panicAt' = panicAt
       ELSE rpc' = "panicked" /\ panicAt' = "open"
  /\ UNCHANGED <<rbuild, stdoutOk, paths, ri, addCalls, addFailed, series, order, fi, logTimes, cursor,
                 advances, curTime, attempts, envOk, lastFmt, lastAdv>>

\* A reader that skips a path whose registration fails.
AddCounter_Skip ==
  /\ rpc = "register" /\ ri <= Len(paths)
  /\ addCalls' = addCalls + 1
  /\ \E st \in {"SUCCESS"} \cup Faults :
       IF st = "SUCCESS"
         THEN /\ series' = Insert(series, paths[ri], <<>>)
              /\ attempts' = Insert(attempts, paths[ri], 0)
              /\ envOk' = Insert(envOk, paths[ri], <<>>)
              /\ ri' = ri + 1
              /\ UNCHANGED <<rpc, panicAt, addFailed>>
         ELSE /\ addFailed' = TRUE /\ ri' = ri + 1
              /\ UNCHANGED <<series, attempts, envOk, rpc, panicAt>>
  /\ UNCHANGED <<rbuild, stdoutOk, paths, order, fi, logTimes, cursor, advances, curTime, lastFmt, lastAdv>>

\* Lines 339-350: PdhAddCounterW for the next requested path; a non-zero
\* status panics, otherwise the handle and an empty series are inserted.
AddCounter ==
  /\ rpc = "register" /\ ri <= Len(paths)
  /\ addCalls' = addCalls + 1
  /\ \E st \in {"SUCCESS"} \cup Faults :
       IF st = "SUCCESS"
         THEN /\ series' = Insert(series, paths[ri], <<>>)
              /\ attempts' = Insert(attempts, paths[ri], 0)
              /\ envOk' = Insert(envOk, paths[ri], <<>>)
              /\ ri' = ri + 1
              /\ UNCHANGED <<rpc, panicAt, addFailed>>
         ELSE /\ rpc' = "panicked" /\ panicAt' = "register" /\ addFailed' = TRUE
              /\ UNCHANGED <<series, attempts, envOk, ri>>
  /\ UNCHANGED <<rbuild, stdoutOk, paths, order, fi, logTimes, cursor, advances, curTime, lastFmt, lastAdv>>

\* The statuses PdhCollectQueryDataWithTime can report at this cursor.
AdvanceStatuses ==
  IF cursor < Len(logTimes) THEN {"SUCCESS"} \cup Faults
  ELSE {"NO_MORE_DATA"} \cup Faults

\* Lines 352-360: advance the query; any non-zero status breaks the loop
\* and counter_data is returned.
CollectAdvance ==
  /\ \/ rpc = "register" /\ ri > Len(paths)
     \/ rpc = "advance"
  /\ \E st \in AdvanceStatuses :
       /\ lastAdv' = st
       /\ IF st # "SUCCESS"
            THEN /\ rpc' = "done"
                 /\ UNCHANGED <<cursor, advances, curTime, fi, order, panicAt>>
            ELSE LET conv == get_time_from_filetime(logTimes[cursor + 1], rbuild) IN
                 /\ cursor' = cursor + 1
                 /\ advances' = advances + 1
                 /\ curTime' = conv.at
                 /\ fi' = 1
                 /\ \E o \in Perms(DOMAIN series) :
                      order' = IF rpc = "register" THEN o ELSE order
                 /\ IF conv.panic
                      THEN rpc' = "panicked" /\ panicAt' = "time"
                      ELSE /\ rpc' = IF DOMAIN series = {} THEN "advance" ELSE "format"
                           /\ panicAt' = panicAt
  /\ UNCHANGED <<rbuild, stdoutOk, paths, ri, addCalls, addFailed, series, logTimes, attempts, envOk,
                 lastFmt>>

\* Lines 362-391, continuation after a recoverable outcome: the next
\* counter of the iteration, or the next advance.
NextCounter ==
  /\ fi' = fi + 1
  /\ rpc' = IF fi + 1 <= Len(order) THEN "format" ELSE "advance"
  /\ panicAt' = panicAt

\* Lines 369 and 380-383: the diagnostic println!, which panics when stdout
\* cannot be written; otherwise the next counter of the iteration, or the
\* next advance.
Diagnose ==
  IF stdoutOk THEN NextCounter
  ELSE rpc' = "panicked" /\ panicAt' = "print" /\ fi' = fi

\* Format-call outcomes: status, CStatus and value; pvalue keeps its
\* default when the call does not succeed with CStatus 0.
FmtOutcomes ==
  {<<"SUCCESS", 0, v>> : v \in LargeValues}
  \cup {<<"SUCCESS", c, 0>> : c \in CStatuses \ {0}}
  \cup {<<st, 0, 0>> : st \in {"INVALID_DATA"} \cup Faults}

\* A reader that records the value whenever the format call succeeds,
\* whatever its CStatus.
FormatValue_AnyCStatus ==
  /\ rpc = "format"
  /\ LET k == order[fi] IN
     \E o \in FmtOutcomes :
       LET st == o[1]  cst == o[2]  v == o[3] IN
       /\ lastFmt' = [k |-> k, status |-> st, cstatus |-> cst]
       /\ attempts' = [attempts EXCEPT ![k] = @ + 1]
       /\ envOk' = IF st = "SUCCESS" /\ cst = 0
                     THEN [envOk EXCEPT ![k] = Append(@, curTime)] ELSE envOk
       /\ CASE st = "INVALID_DATA" -> series' = series /\ Diagnose
            [] st = "SUCCESS" ->
                 series' = [series EXCEPT ![k] = Append(@, [t |-> curTime, v |-> v])]
                 /\ NextCounter
            [] OTHER -> series' = series /\ rpc' = "panicked" /\ panicAt' = "format"
                        /\ fi' = fi
  /\ UNCHANGED <<rbuild, stdoutOk, paths, ri, addCalls, addFailed, order, logTimes, cursor, advances,
                 curTime, lastAdv>>

\* Lines 362-391: PdhGetFormattedCounterValue(PDH_FMT_LARGE) for the next
\* counter of the iteration. PDH_INVALID_DATA and a non-zero CStatus are
\* reported (println!, see Diagnose) and skipped; status 0 with CStatus 0
\* appends the sample; any other status panics.
FormatValue ==
  /\ rpc = "format"
  /\ LET k == order[fi] IN
     \E o \in FmtOutcomes :
       LET st == o[1]  cst == o[2]  v == o[3] IN
       /\ lastFmt' = [k |-> k, status |-> st, cstatus |-> cst]
       /\ attempts' = [attempts EXCEPT ![k] = @ + 1]
       /\ envOk' = IF st = "SUCCESS" /\ cst = 0
                     THEN [envOk EXCEPT ![k] = Append(@, curTime)] ELSE envOk
       /\ CASE st = "INVALID_DATA" -> series' = series /\ Diagnose
            [] st = "SUCCESS" /\ cst = 0 ->
                 series' = [series EXCEPT ![k] = Append(@, [t |-> curTime, v |-> v])]
                 /\ NextCounter
            [] st = "SUCCESS" -> series' = series /\ Diagnose
            [] OTHER -> series' = series /\ rpc' = "panicked" /\ panicAt' = "format"
                        /\ fi' = fi
  /\ UNCHANGED <<rbuild, stdoutOk, paths, ri, addCalls, addFailed, order, logTimes, cursor, advances,
                 curTime, lastAdv>>


(***************************************************************************)
(* PerfLogSummary::get_all_counters: one path per machine, object,        *)
(* instance and counter, formatted as "{machine}\{object}({instance})\    *)
(* {counter}". Machine names are held as PDH reports them, with their     *)
(* leading "\\".                                                          *)
(***************************************************************************)

RECURSIVE Flatten(_)
Flatten(ss) == IF ss = <<>> THEN <<>> ELSE Head(ss) \o Flatten(Tail(ss))

\* format!("{}\\{}({})\\{}", machine.name, object.name, instance, counter)
FormatPath(m, o, i, c) == m \o <<92>> \o o \o <<40>> \o i \o <<41, 92>> \o c

\* A variant whose inner loops run counters outside instances.
get_all_counters_CounterMajor(sum) ==
  Flatten([mi_ \in DOMAIN sum |->
    Flatten([oj \in DOMAIN sum[mi_].objects |->
      LET obj == sum[mi_].objects[oj] IN
      Flatten([b \in DOMAIN obj.counters |->
        [a \in DOMAIN obj.instances |->
          FormatPath(sum[mi_].name, obj.name, obj.instances[a], obj.counters[b])]])])])

get_all_counters(sum) ==
  Flatten([mi_ \in DOMAIN sum |->
    Flatten([oj \in DOMAIN sum[mi_].objects |->
      LET obj == sum[mi_].objects[oj] IN
      Flatten([a \in DOMAIN obj.instances |->
        [b \in DOMAIN obj.counters |->
          FormatPath(sum[mi_].name, obj.name, obj.instances[a], obj.counters[b])]])])])

MaxGMachines == 2
MaxGObjects == 2
MaxGItems == 2

GBareMachine(i) == <<77, 48 + i>>
GMachineName(i) == <<92, 92>> \o GBareMachine(i)
GObjectName(j) == <<79, 48 + j>>
GCounter(c) == <<67, 48 + c>>
GInstance(a) == <<73, 48 + a>>

\* Summaries: n machines with k_i objects each; object (i, j) has
\* (i + j + s1) % (MaxGItems + 1) counters and (i * j + s2) % (MaxGItems + 1)
\* instances, covering empty and multi-element lists.
GObject(i, j, s1, s2) ==
  [name |-> GObjectName(j),
   counters |-> [c \in 1..((i + j + s1) % (MaxGItems + 1)) |-> GCounter(c)],
   instances |-> [a \in 1..((i * j + s2) % (MaxGItems + 1)) |-> GInstance(a)]]

GSummaries ==
  UNION {{[i \in 1..n |-> [name |-> GMachineName(i),
                           objects |-> [j \in 1..ks[i] |-> GObject(i, j, s1, s2)]]]
          : ks \in [1..n -> 0..MaxGObjects], s1 \in 0..MaxGItems, s2 \in 0..MaxGItems}
         : n \in 0..MaxGMachines}

PathInit ==
  /\ gsum \in GSummaries
  /\ gout = <<>>
  /\ gpc = "init"

GetAllCounters ==
  /\ gpc = "init"
  /\ gout' = get_all_counters(gsum)
  /\ gpc' = "done"
  /\ UNCHANGED gsum

(***************************************************************************)
(* Specifications                                                          *)
(***************************************************************************)

DecIdle ==
  /\ dStrs = <<>> /\ dLen = 0 /\ dOut = [ok |-> TRUE, strs |-> <<>>]
  /\ dpc = "idle"

TimeIdle ==
  /\ ta = ToU64(0) /\ tb = ToU64(0) /\ profile = "release"
  /\ ca = [panic |-> FALSE, at |-> Epoch1601]
  /\ cb = [panic |-> FALSE, at |-> Epoch1601]
  /\ tpc = "idle"

WalkIdle ==
  /\ wpc = "idle" /\ cat = <<>> /\ calls = <<>> /\ need = <<0, 0>>
  /\ mlist = <<>> /\ mi = 1 /\ olist = <<>> /\ oi = 1
  /\ objs = <<>> /\ summary = <<>>

MainIdle ==
  /\ mpc = "idle" /\ nfiles = 0 /\ dsBound = FALSE /\ dsReleases = 0
  /\ mmCount = 0 /\ mmi = 1 /\ moCount = 0 /\ moi = 1

ReadIdle ==
  /\ rpc = "idle" /\ rbuild = "release" /\ stdoutOk = TRUE /\ paths = <<>> /\ logTimes = <<>>
  /\ ri = 1 /\ addCalls = 0 /\ addFailed = FALSE
  /\ series = <<>> /\ attempts = <<>> /\ envOk = <<>>
  /\ order = <<>> /\ fi = 1
  /\ cursor = 0 /\ advances = 0 /\ curTime = Epoch1601
  /\ lastFmt = NoFmt /\ lastAdv = "NONE" /\ panicAt = "NONE"

PathIdle == gsum = <<>> /\ gout = <<>> /\ gpc = "idle"

DecoderNext == Decode /\ UNCHANGED <<timeVars, walkVars, mainVars, readVars, pathVars>>
DecoderInit == DecInit /\ TimeIdle /\ WalkIdle /\ MainIdle /\ ReadIdle /\ PathIdle
DecoderSpec == DecoderInit /\ [][DecoderNext]_vars

TimeNext == Convert /\ UNCHANGED <<decVars, walkVars, mainVars, readVars, pathVars>>
TimeSpecInit == TimeInit /\ DecIdle /\ WalkIdle /\ MainIdle /\ ReadIdle /\ PathIdle
TimeSpec == TimeSpecInit /\ [][TimeNext]_vars


WalkNext ==
  /\ \/ EnumMachinesSize
     \/ EnumMachinesFill
     \/ EnumObjectsSize
     \/ EnumObjectsFill
     \/ EnumItemsSize
     \/ EnumItemsFill
     \/ PushMachine
     \/ GetTimeRange
  /\ UNCHANGED <<decVars, timeVars, mainVars, readVars, pathVars>>

WalkSpecInit == WalkInit /\ DecIdle /\ TimeIdle /\ MainIdle /\ ReadIdle /\ PathIdle
WalkSpec == WalkSpecInit /\ [][WalkNext]_vars

(***************************************************************************)
(* Catalog walker properties                                               *)
(***************************************************************************)

\* The objects of machine i that the walk keeps, in reported order.
RECURSIVE KeptObjects(_, _)
KeptObjects(i, j) ==
  IF j > Len(cat[i]) THEN <<>>
  ELSE (IF cat[i][j] THEN <<>>
        ELSE <<[name |-> ObjectName(j), counters |-> CountersOf(i, j),
                instances |-> InstancesOf(i, j)]>>)
       \o KeptObjects(i, j + 1)

ExpectedSummary ==
  [i \in DOMAIN cat |-> [name |-> MachineName(i), objects |-> KeptObjects(i, 1)]]

\* C5: a completed get_perflog_summary has one MachineSummary per reported
\* machine in reported order (also when all its objects are skipped);
\* objects whose item enumeration reports PDH_CSTATUS_NO_OBJECT are left
\* out, and every other object appears once, in reported order, with the
\* counter and instance lists of its enumeration.
SummaryMatchesCatalog ==
  wpc = "done" => summary = ExpectedSummary

SummaryWitness ==
  /\ wpc = "done" /\ Len(cat) = MaxMachines
  /\ \E i \in DOMAIN cat : Len(cat[i]) >= 1 /\ \A j \in DOMAIN cat[i] : cat[i][j]
  /\ \E i \in DOMAIN cat : \E j \in DOMAIN cat[i] : ~cat[i][j]

CallKey(e) == <<e.fn, e.m, e.o>>

FatalCall(e) ==
  \/ e.phase = 1 /\ e.status \notin ({"MORE_DATA"} \cup
                                     (IF e.fn = "items" THEN {"NO_OBJECT"} ELSE {}))
  \/ e.phase = 2 /\ e.status # "SUCCESS"

\* C6: every enumeration is a size call, then (on PDH_MORE_DATA) a fill call
\* with buffers of exactly the reported size, then (on success) a decode;
\* no call is repeated, and a fatal status is the last call of the walk,
\* which is aborted.
EnumTwoPhase ==
  \A i \in DOMAIN calls :
    LET e == calls[i] IN
    /\ e.phase = 2 =>
         /\ i > 1 /\ calls[i - 1].phase = 1 /\ CallKey(calls[i - 1]) = CallKey(e)
         /\ calls[i - 1].status = "MORE_DATA" /\ e.size = calls[i - 1].size
    /\ e.phase = 3 =>
         /\ i > 1 /\ calls[i - 1].phase = 2 /\ CallKey(calls[i - 1]) = CallKey(e)
         /\ calls[i - 1].status = "SUCCESS"
    /\ (e.phase = 1 /\ e.status = "MORE_DATA") =>
         IF i < Len(calls) THEN calls[i + 1].phase = 2
         ELSE wpc \in {"machines2", "objects2", "items2"}
    /\ (e.phase = 2 /\ e.status = "SUCCESS") => (i < Len(calls) /\ calls[i + 1].phase = 3)
    /\ FatalCall(e) => (i = Len(calls) /\ wpc = "panicked")
    /\ \A j \in DOMAIN calls :
         j # i => ~(CallKey(calls[j]) = CallKey(e) /\ calls[j].phase = e.phase)

EnumTwoPhaseWitness ==
  /\ wpc = "panicked"
  /\ \E i \in DOMAIN calls : calls[i].status = "NO_OBJECT"
  /\ calls[Len(calls)].fn = "items" /\ calls[Len(calls)].phase = 2


MainNext ==
  /\ \/ MainCheckFiles
     \/ MainBind
     \/ MainEnumMachines
     \/ MainEnumObjects
     \/ MainEnumItems
     \/ MainTimeRange
     \/ MainCloseLog
  /\ UNCHANGED <<decVars, timeVars, walkVars, readVars, pathVars>>

MainSpecInit == MainInit /\ DecIdle /\ TimeIdle /\ WalkIdle /\ ReadIdle /\ PathIdle
MainSpec == MainSpecInit /\ [][MainNext]_vars

MainExited == mpc \in {"returned", "panicked", "done"}

\* C2 (data-source part): on every exit path of a run that bound a data
\* source, the DataSourceHandle has been released exactly once.
DataSourceReleasedOnce ==
  (MainExited /\ dsBound) => dsReleases = 1


ReadNext ==
  /\ \/ OpenQuery
     \/ AddCounter
     \/ CollectAdvance
     \/ FormatValue
  /\ UNCHANGED <<decVars, timeVars, walkVars, mainVars, pathVars>>

Init == ReadInit /\ DecIdle /\ TimeIdle /\ WalkIdle /\ MainIdle /\ PathIdle
Spec == Init /\ [][ReadNext]_vars

(***************************************************************************)
(* Counter value reader properties                                        *)
(***************************************************************************)

\* C1: read_counter_values returns (ends collection without error) only
\* when the advance call reported the log-exhaustion status.
ReturnsOnlyOnExhaustion ==
  rpc = "done" => lastAdv = "NO_MORE_DATA"

Pending == Range(SubSeq(order, fi, Len(order)))

Times(s) == [i \in DOMAIN s |-> s[i].t]

FormatInv ==
  /\ rpc \in {"advance", "done"} => \A k \in DOMAIN series : attempts[k] = advances
  /\ rpc = "format" =>
       \A k \in DOMAIN series :
         attempts[k] = advances - (IF k \in Pending THEN 1 ELSE 0)
  /\ \A k \in DOMAIN series :
       /\ Times(series[k]) = envOk[k]
       /\ Len(series[k]) <= advances

FormatStepOutcome ==
  rpc = "format" =>
    \A k \in DOMAIN series :
      /\ series'[k] # series[k] =>
           /\ attempts'[k] = attempts[k] + 1
           /\ Len(series'[k]) = Len(series[k]) + 1
           /\ series'[k] = Append(series[k], [t |-> curTime,
                                              v |-> series'[k][Len(series'[k])].v])
      /\ attempts'[k] = attempts[k] + 1 =>
           /\ (series'[k] # series[k]) <=> (lastFmt'.status = "SUCCESS" /\ lastFmt'.cstatus = 0)
           /\ (rpc' = "panicked") <=> (lastFmt'.status \notin {"SUCCESS", "INVALID_DATA"})

\* C7: on each successful advance every registered counter gets exactly one
\* formatted-value attempt; a sample with the advance's timestamp is
\* appended iff the call returns success with CStatus 0; PDH_INVALID_DATA
\* and a non-zero CStatus skip the counter and collection continues; any
\* other status aborts; each series grows by at most one sample per advance.
FormatPerCounter == []FormatInv /\ [][FormatStepOutcome]_vars

StrictlyIncreasing(s) ==
  \A i \in DOMAIN s : \A j \in DOMAIN s : i < j => U64Lt(s[i].t, s[j].t)

\* C8 (as stated): with a single counter path, a returned series has one
\* sample per successful advance, with strictly increasing timestamps, and
\* is empty when no advance succeeded.
SingleCounterSeries ==
  (rpc = "done" /\ Len(paths) = 1) =>
    LET s == series[paths[1]] IN
    /\ Len(s) = advances
    /\ StrictlyIncreasing(s)
    /\ (advances = 0 => s = <<>>)

\* Every filetime consumed so far is at most (2^64-1) \div 100.
ConsumedInRange ==
  \A i \in 1..cursor : ~U64Lt(MaxScalableTicks, logTimes[i])

\* C8 (amended): with a single counter path, a returned series holds one
\* sample for each successful advance at which the format call succeeded
\* with CStatus 0 (so at most one per advance); its timestamps are strictly
\* increasing when the log's filetimes are increasing and at most
\* (2^64-1) \div 100; with zero advances it is empty.
SingleCounterSeriesSkips ==
  (rpc = "done" /\ Len(paths) = 1) =>
    LET s == series[paths[1]] IN
    /\ Times(s) = envOk[paths[1]]
    /\ Len(s) <= advances
    /\ ConsumedInRange => StrictlyIncreasing(s)
    /\ (advances = 0 => s = <<>>)

SingleCounterWitness ==
  /\ rpc = "done" /\ Len(paths) = 1
  /\ 1 <= Len(series[paths[1]]) /\ Len(series[paths[1]]) < advances

\* C9: a failing PdhAddCounterW aborts the read before any advance, no
\* series is returned, and no later path is registered.
RegistrationFailureAborts ==
  addFailed =>
    /\ rpc = "panicked" /\ panicAt = "register"
    /\ advances = 0
    /\ addCalls = ri

RegistrationWitness ==
  addFailed /\ ri < Len(paths)


PathNext == GetAllCounters /\ UNCHANGED <<decVars, timeVars, walkVars, mainVars, readVars>>

PathSpecInit == PathInit /\ DecIdle /\ TimeIdle /\ WalkIdle /\ MainIdle /\ ReadIdle
PathSpec == PathSpecInit /\ [][PathNext]_vars

RECURSIVE SumSeq(_)
SumSeq(s) == IF s = <<>> THEN 0 ELSE Head(s) + SumSeq(Tail(s))

PairCount(i, j) ==
  Len(gsum[i].objects[j].instances) * Len(gsum[i].objects[j].counters)

MachinePairs(i) == SumSeq([j \in DOMAIN gsum[i].objects |-> PairCount(i, j)])

\* Index of the first path of object j of machine i, machine-major.
PairOffset(i, j) ==
  SumSeq([k \in 1..(i - 1) |-> MachinePairs(k)])
  + SumSeq([k \in 1..(j - 1) |-> PairCount(i, k)])

IsPathPrefix(p, q) == Len(p) <= Len(q) /\ p = SubSeq(q, 1, Len(p))

\* C11 (as stated): every instance/counter pair of every object appears,
\* including objects whose instance list is empty: each counter of such a
\* singleton object is listed under its machine and object.
SingletonCountersListed ==
  gpc = "done" =>
    \A i \in DOMAIN gsum : \A j \in DOMAIN gsum[i].objects :
      LET obj == gsum[i].objects[j] IN
      obj.instances = <<>> =>
        \A b \in DOMAIN obj.counters :
          \E k \in DOMAIN gout :
            /\ IsPathPrefix(gsum[i].name \o <<92>> \o obj.name, gout[k])
            /\ \E n \in 1..Len(gout[k]) :
                 SubSeq(gout[k], n, Len(gout[k])) = <<92>> \o obj.counters[b]

\* C11 (amended): get_all_counters returns, machine-major, then object,
\* instance and counter, exactly one path "\\machine\object(instance)\counter"
\* per instance/counter pair; an object whose instance list is empty
\* contributes no path, so its counters are not listed.
AllCountersCrossProduct ==
  gpc = "done" =>
    /\ \A i \in DOMAIN gsum : \A j \in DOMAIN gsum[i].objects :
         gsum[i].objects[j].instances = <<>> =>
           \A k \in DOMAIN gout :
             ~IsPathPrefix(gsum[i].name \o <<92>> \o gsum[i].objects[j].name \o <<40>>,
                           gout[k])
    /\ Len(gout) = SumSeq([i \in DOMAIN gsum |-> MachinePairs(i)])
    /\ \A i \in DOMAIN gsum : \A j \in DOMAIN gsum[i].objects :
         LET obj == gsum[i].objects[j] IN
         \A a \in DOMAIN obj.instances : \A b \in DOMAIN obj.counters :
           gout[PairOffset(i, j) + (a - 1) * Len(obj.counters) + b]
             = <<92, 92>> \o GBareMachine(i) \o <<92>> \o obj.name \o <<40>>
               \o obj.instances[a] \o <<41>> \o <<92>> \o obj.counters[b]

AllCountersWitness ==
  /\ gpc = "done" /\ Len(gsum) = MaxGMachines
  /\ \E i \in DOMAIN gsum : \E j \in DOMAIN gsum[i].objects :
       gsum[i].objects[j].instances = <<>> /\ gsum[i].objects[j].counters # <<>>
  /\ \E i \in DOMAIN gsum : \E j \in DOMAIN gsum[i].objects :
       Len(gsum[i].objects[j].instances) >= 2 /\ Len(gsum[i].objects[j].counters) >= 2

====
